---- MODULE Spec2Model ----
(***************************************************************************)
(* A model of the eureka cluster monitor (monitor.py, src/run_cli.py).     *)
(*                                                                         *)
(* Python values are modelled as follows.                                  *)
(*   str   a sequence of lexemes (atoms): "0/12.eureka00" is               *)
(*         <<"0", "/", "12", ".", "eureka00">>, "free" is <<"free">>,      *)
(*         "eureka01" is <<"eureka", "01">>.  Separators are atoms of      *)
(*         their own, so str.split(sep), startswith and `in` are computed. *)
(*   dict  an insertion-ordered association list <<[k |-> .., v |-> ..]>>  *)
(*         with unique keys; iteration follows the list.  A dict with      *)
(*         fixed literal keys ({'State': .., 'Jobs': ..}) is a record.     *)
(*   text  a sequence of lines; a line is [indent |-> n, toks |-> <<..>>]: *)
(*         n leading blanks and the whitespace-delimited tokens, so that   *)
(*         line.split() is toks.                                           *)
(* An uncaught exception or exit(1) in the main thread ends the process    *)
(* with exit code 1; `crash` names what was raised.                        *)
(***************************************************************************)
EXTENDS Integers, Sequences, FiniteSets, TLC

VARIABLES
    pc,            \* position of the main thread
    exit_code,     \* -1 while the process runs, else its exit status
    crash,         \* "" or the exception that ended the main thread
    is_root,       \* basename(expanduser('~')) == 'root'
    inventory,     \* the cluster as the scheduler knows it: [nodes, slotFirst]
    cmd_out,       \* what each scheduler command returns: [rc, out]
    thread,        \* state of the worker thread of each command
    joined,        \* number of threads the main thread has joined
    results,       \* the dict shared by the worker threads
    parsers_run,   \* the parsers that have been called
    job_stats,     \* qstat_data_handler's result
    running_jobs,  \* showq_data_handler's result
    node_state,    \* the node tree
    alive_nodes,   \* get_alive_nodes' result
    metrics,       \* the collectors' results, by name
    cmds_run,      \* basenames of the commands the collectors executed
    timeouts,      \* node probes that gave no sample so far
    rows           \* the lines print_output has printed

vars == <<pc, exit_code, crash, is_root, inventory, cmd_out, thread, joined, results,
          parsers_run, job_stats, running_jobs, node_state, alive_nodes,
          metrics, cmds_run, timeouts, rows>>

----------------------------------------------------------------------------
(* Bounds of the model.                                                    *)

\* nodes in a generated tree or inventory: eureka00 .. eureka<MaxNode-1>
MaxNode == 2
\* slot tokens on a generated "jobs =" line
MaxSlots == 2
\* lines after the header of a generated qstat text
MaxQstatLines == 2
\* node probes that may time out in one run
MaxTimeouts == 1

----------------------------------------------------------------------------
(* Python str, list and dict primitives.                                   *)

Str(a) == <<a>>

Range(s) == {s[i] : i \in 1..Len(s)}

\* s.split(sep) for a one-character separator
RECURSIVE Split(_, _)
Split(s, sep) ==
    IF \A i \in 1..Len(s) : s[i] # sep
    THEN <<s>>
    ELSE LET i == CHOOSE i \in 1..Len(s) :
                      s[i] = sep /\ \A j \in 1..(i - 1) : s[j] # sep
         IN  <<SubSeq(s, 1, i - 1)>> \o Split(SubSeq(s, i + 1, Len(s)), sep)

\* list[n:]
From(s, n) == SubSeq(s, n + 1, Len(s))

\* `sub in s` for a one-lexeme sub
Contains(s, sub) == \E i \in 1..Len(s) : s[i] = sub

Has(d, k) == \E i \in 1..Len(d) : d[i].k = k

Get(d, k) == d[CHOOSE i \in 1..Len(d) : d[i].k = k].v

Put(d, k, v) ==
    IF Has(d, k)
    THEN [i \in 1..Len(d) |-> IF d[i].k = k THEN [k |-> k, v |-> v] ELSE d[i]]
    ELSE Append(d, [k |-> k, v |-> v])

Keys(d) == [i \in 1..Len(d) |-> d[i].k]

KeySet(d) == {d[i].k : i \in 1..Len(d)}

\* rec[key] = v for a dict with literal keys
SetField(rec, key, v) == (key :> v) @@ rec

Line(n, toks) == [indent |-> n, toks |-> toks]

BlankLine == Line(0, <<>>)

\* text.strip(): leading and trailing white space go, so blank lines at both
\* ends and the first line's indentation
RECURSIVE LStrip(_)
LStrip(text) ==
    IF text = <<>> THEN <<>>
    ELSE IF text[1].toks = <<>> THEN LStrip(Tail(text))
    ELSE <<Line(0, text[1].toks)>> \o Tail(text)

RECURSIVE RStrip(_)
RStrip(text) ==
    IF text = <<>> THEN <<>>
    ELSE IF text[Len(text)].toks = <<>> THEN RStrip(SubSeq(text, 1, Len(text) - 1))
    ELSE text

Strip(text) == RStrip(LStrip(text))

----------------------------------------------------------------------------
(* Names.                                                                  *)

NodeIndex == <<"00", "01", "02", "03", "04", "05">>

NodeName(i) == <<"eureka", NodeIndex[i + 1]>>

HeadNode == NodeName(0)

JobIds == {"12", "13"}

Digits == {"0", "1", "2", "3"} \cup JobIds

Placeholder == Str("--")

Ok(v) == [err |-> "", val |-> v]

Raise(e) == [err |-> e, val |-> <<>>]

----------------------------------------------------------------------------
(* pbsnodes_data_handler                                                   *)

StartsWith(line, word) ==
    line.indent = 0 /\ line.toks # <<>> /\ line.toks[1][1] = word

\* ' <word> =' in line
HasMarker(line, word) ==
    \E i \in 1..(Len(line.toks) - 1) :
        /\ line.toks[i] = Str(word)
        /\ line.toks[i + 1] = Str("=")
        /\ (i > 1 \/ line.indent > 0)

\* a faulty variant of JobIdOfSlot: index 0 of the second split
JobIdOfSlotBug(job) ==
    LET parts == Split(Split(job, ".")[1], "/")
    IN  Ok(parts[1])

\* job.split('.')[0].split('/')[1]
JobIdOfSlot(job) ==
    LET parts == Split(Split(job, ".")[1], "/")
    IN  IF Len(parts) < 2 THEN Raise("IndexError") ELSE Ok(parts[2])

\* the loop over the tokens of a "jobs =" line
RECURSIVE JobsInfo(_, _)
JobsInfo(jobs, jobs_info) ==
    IF jobs = <<>> THEN Ok(jobs_info)
    ELSE LET id == JobIdOfSlot(jobs[1])
         IN  IF id.err # "" THEN id
             ELSE JobsInfo(Tail(jobs),
                           IF Has(jobs_info, id.val)
                           THEN Put(jobs_info, id.val,
                                    [np |-> Get(jobs_info, id.val).np + 1])
                           ELSE Put(jobs_info, id.val, [np |-> 1]))

\* one line of the scan; acc = [err, nodes, bound, node_name]
PbsLine(acc, line) ==
    IF StartsWith(line, "eureka")
    THEN [acc EXCEPT !.node_name = line.toks[1], !.bound = TRUE,
                     !.nodes = Put(acc.nodes, line.toks[1],
                                   [State |-> Str("unknown"), Jobs |-> <<>>])]
    ELSE IF HasMarker(line, "state")
    THEN IF Len(line.toks) < 3 THEN [acc EXCEPT !.err = "IndexError"]
         ELSE IF ~acc.bound THEN [acc EXCEPT !.err = "UnboundLocalError"]
         ELSE [acc EXCEPT !.nodes =
                  Put(acc.nodes, acc.node_name,
                      [Get(acc.nodes, acc.node_name) EXCEPT !.State = line.toks[3]])]
    ELSE IF HasMarker(line, "jobs")
    THEN LET info == JobsInfo(From(line.toks, 2), <<>>)
         IN  IF info.err # "" THEN [acc EXCEPT !.err = info.err]
             ELSE IF ~acc.bound THEN [acc EXCEPT !.err = "UnboundLocalError"]
             ELSE [acc EXCEPT !.nodes =
                      Put(acc.nodes, acc.node_name,
                          [Get(acc.nodes, acc.node_name) EXCEPT !.Jobs = info.val])]
    ELSE acc

RECURSIVE PbsScan(_, _)
PbsScan(acc, lines) ==
    IF lines = <<>> \/ acc.err # "" THEN acc
    ELSE PbsScan(PbsLine(acc, lines[1]), Tail(lines))

pbsnodes_data_handler(pbs_msg) ==
    LET acc == PbsScan([err |-> "", nodes |-> <<>>, bound |-> FALSE,
                        node_name |-> <<>>], pbs_msg)
    IN  IF acc.err # "" THEN Raise(acc.err) ELSE Ok(acc.nodes)

----------------------------------------------------------------------------
(* qstat_data_handler and showq_data_handler                               *)

HeaderLines == 2

RecordWidth == 6

ShowqSentinel == 4

ShowqTimeColumn == 4

\* a faulty variant of IsRecord: shorter lines pass
IsRecordBug(parts) == Len(parts) <= RecordWidth

\* the test of line 209
IsRecord(parts) == Len(parts) = RecordWidth

RECURSIVE QstatScan(_, _)
QstatScan(lines, jobs_state) ==
    IF lines = <<>> THEN Ok(jobs_state)
    ELSE LET parts == lines[1].toks
         IN  IF IsRecord(parts)
             THEN QstatScan(Tail(lines),
                            Put(jobs_state, Split(parts[1], ".")[1],
                                [User |-> parts[3], Name |-> parts[2],
                                 Time |-> parts[4], Stat |-> parts[5]]))
             ELSE Raise("SystemExit")

qstat_data_handler(qstat_msg) == QstatScan(From(qstat_msg, HeaderLines), <<>>)

RECURSIVE ShowqScan(_, _)
ShowqScan(lines, jobs) ==
    IF lines = <<>> THEN Ok(jobs)
    ELSE LET line == lines[1]
         IN  IF line.indent >= ShowqSentinel THEN Ok(jobs)
             ELSE IF line.indent = 0 /\ line.toks # <<>> /\ line.toks[1][1] \in Digits
             THEN IF Len(line.toks) < ShowqTimeColumn + 1 THEN Raise("IndexError")
                  ELSE ShowqScan(Tail(lines),
                                 Put(jobs, line.toks[1],
                                     [User |-> line.toks[2], State |-> line.toks[3],
                                      Time |-> line.toks[ShowqTimeColumn + 1]]))
             ELSE ShowqScan(Tail(lines), jobs)

showq_data_handler(showq_msg) == ShowqScan(showq_msg, <<>>)

----------------------------------------------------------------------------
(* merge_pbs_qstat                                                         *)

\* a faulty variant of JobName: the job queue is not consulted
JobNameBug(job, qstat) == Placeholder

\* lines 298-301
JobName(job, qstat) ==
    IF Has(qstat, job) THEN Get(qstat, job).Name ELSE Placeholder

\* the body of the inner loop, lines 298-303
MergeJob(rec, job, qstat, showq) ==
    LET named == SetField(rec, "Name", JobName(job, qstat))
    IN  IF ~Has(showq, job) THEN Raise("KeyError")
        ELSE Ok(SetField(SetField(named, "User", Get(showq, job).User),
                         "Time", Get(showq, job).Time))

RECURSIVE MergeJobs(_, _, _, _)
MergeJobs(jobs, i, qstat, showq) ==
    IF i > Len(jobs) THEN Ok(jobs)
    ELSE LET r == MergeJob(jobs[i].v, jobs[i].k, qstat, showq)
         IN  IF r.err # "" THEN r
             ELSE MergeJobs([jobs EXCEPT ![i].v = r.val], i + 1, qstat, showq)

RECURSIVE MergeNodes(_, _, _, _)
MergeNodes(pbs, i, qstat, showq) ==
    IF i > Len(pbs) THEN Ok(pbs)
    ELSE LET r == MergeJobs(pbs[i].v.Jobs, 1, qstat, showq)
         IN  IF r.err # "" THEN r
             ELSE MergeNodes([pbs EXCEPT ![i].v.Jobs = r.val], i + 1, qstat, showq)

merge_pbs_qstat(pbs, qstat, showq) == MergeNodes(pbs, 1, qstat, showq)

----------------------------------------------------------------------------
(* get_alive_nodes                                                         *)

AliveStates == {Str("job-exclusive"), Str("free")}

\* a faulty variant of IsAlive: 'unknown' passes too
IsAliveBug(state) == state \in AliveStates \cup {Str("unknown")}

\* the test of line 313
IsAlive(state) == state \in AliveStates

RECURSIVE AliveScan(_, _, _)
AliveScan(node_st, i, alive) ==
    IF i > Len(node_st) THEN alive
    ELSE AliveScan(node_st, i + 1,
                   IF IsAlive(node_st[i].v.State)
                   THEN Append(alive, node_st[i].k) ELSE alive)

get_alive_nodes(node_st) == AliveScan(node_st, 1, <<HeadNode>>)

----------------------------------------------------------------------------
(* merge_data                                                              *)

\* the test of lines 485 and 543
IsDown(node, rec) == Contains(rec.State, "down") /\ node # HeadNode

IsZero(x) == x.isInt /\ x.int = 0

Int0 == [isInt |-> TRUE, int |-> 0, dict |-> <<>>]

Dict(d) == [isInt |-> FALSE, int |-> 0, dict |-> d]

\* the assignments of lines 487-502, in order: <<key of the node, map, field>>
MergeSteps(m) ==
    <<[key |-> "CPU_usage",  map |-> m.cpu_usage,  field |-> ""],
      [key |-> "CPU_temp",   map |-> m.cpu_temp,   field |-> ""],
      [key |-> "Mem_usage",  map |-> m.Mem_usage,  field |-> ""],
      [key |-> "GPU_usage",  map |-> m.GPU_usage,  field |-> "Usage"],
      [key |-> "GPU_mem",    map |-> m.GPU_usage,  field |-> "Mem"],
      [key |-> "GPU_temp",   map |-> m.GPU_usage,  field |-> "Temp"]>>
    \o (IF IsZero(m.IB_speed) THEN <<>>
        ELSE <<[key |-> "IB_speed", map |-> m.IB_speed.dict, field |-> ""]>>)
    \o (IF IsZero(m.IB_temp) THEN <<>>
        ELSE <<[key |-> "IB_temp", map |-> m.IB_temp.dict, field |-> ""]>>)
    \o <<[key |-> "Disk_usage", map |-> m.disk_usage, field |-> ""]>>

RECURSIVE MergeNodeData(_, _, _, _)
MergeNodeData(rec, node, steps, i) ==
    IF i > Len(steps) THEN Ok(rec)
    ELSE LET s == steps[i]
         IN  IF ~Has(s.map, node) THEN Raise("KeyError")
             ELSE IF s.field # "" /\ s.field \notin DOMAIN Get(s.map, node)
             THEN Raise("KeyError")
             ELSE MergeNodeData(
                      SetField(rec, s.key,
                               IF s.field = "" THEN Get(s.map, node)
                               ELSE Get(s.map, node)[s.field]),
                      node, steps, i + 1)

RECURSIVE MergeDataScan(_, _, _)
MergeDataScan(state, i, m) ==
    IF i > Len(state) THEN Ok(state)
    ELSE IF IsDown(state[i].k, state[i].v) THEN MergeDataScan(state, i + 1, m)
    ELSE LET r == MergeNodeData(state[i].v, state[i].k, MergeSteps(m), 1)
         IN  IF r.err # "" THEN r
             ELSE MergeDataScan([state EXCEPT ![i].v = r.val], i + 1, m)

merge_data(state, m) == MergeDataScan(state, 1, m)

----------------------------------------------------------------------------
(* print_output                                                            *)

\* conversion specifiers of the format strings of lines 523, 548, 559, 568
NumColumns == 13

\* conversion specifiers of the format string of line 544
DownColumns == 2

\* fmt % args
Format(nspec, args) ==
    IF Len(args) # nspec THEN Raise("TypeError") ELSE Ok(args)

Rank(node) == CHOOSE i \in 0..(Len(NodeIndex) - 1) : NodeName(i) = node

\* sorted(data)
RECURSIVE SortedKeys(_)
SortedKeys(keys) ==
    IF keys = {} THEN <<>>
    ELSE LET m == CHOOSE n \in keys : \A o \in keys : Rank(n) <= Rank(o)
         IN  <<m>> \o SortedKeys(keys \ {m})

HeaderRow ==
    <<Str("Node_name"), Str("User"), Str("Job_name"), Str("Job_ID"),
      Str("%CPU"), Str("CPU_Mem"), Str("T_CPU"), Str("%GPU"), Str("GPU_Mem"),
      Str("T_GPU"), Str("IB_speed"), Str("T_IB"), Str("Disk")>>

Empty == <<>>

\* data[node][key] for each key, in order
RECURSIVE Lookup(_, _)
Lookup(rec, keys) ==
    IF keys = <<>> THEN Ok(<<>>)
    ELSE IF keys[1] \notin DOMAIN rec THEN Raise("KeyError")
    ELSE LET rest == Lookup(rec, Tail(keys))
         IN  IF rest.err # "" THEN rest ELSE Ok(<<rec[keys[1]]>> \o rest.val)

\* the arguments of the row of lines 568-572
ContinuationArgs(job, jobID) ==
    <<Empty, job.User, job.Name, jobID, job.Time,
      Empty, Empty, Empty, Empty, Empty, Empty, Empty, Empty, Empty>>

\* the resource columns of lines 551-553 and 562-564
ResourceArgs(rec, IBs, IBt) ==
    LET a == Lookup(rec, <<"CPU_usage", "Mem_usage", "CPU_temp",
                           "GPU_usage", "GPU_mem", "GPU_temp">>)
        d == Lookup(rec, <<"Disk_usage">>)
    IN  IF a.err # "" THEN a
        ELSE IF d.err # "" THEN d
        ELSE Ok(a.val \o <<IBs, IBt>> \o d.val)

\* the loop of lines 557-572; out = [err, rows]
RECURSIVE JobRows(_, _, _, _, _)
JobRows(node, rec, res, i, out) ==
    IF i > Len(rec.Jobs) \/ out.err # "" THEN out
    ELSE LET job == rec.Jobs[i].v
             jobID == rec.Jobs[i].k
             need == IF i = 1 THEN <<"User", "Name">> ELSE <<"User", "Name", "Time">>
             got == Lookup(job, need)
             row == IF got.err # "" THEN got
                    ELSE IF i = 1
                    THEN IF res.err # "" THEN res
                         ELSE Format(NumColumns,
                                     <<node, job.User, job.Name, jobID>> \o res.val)
                    ELSE Format(NumColumns, ContinuationArgs(job, jobID))
         IN  JobRows(node, rec, res, i + 1,
                     IF row.err # "" THEN [out EXCEPT !.err = row.err]
                     ELSE [out EXCEPT !.rows = Append(out.rows, row.val)])

\* the body of the loop of lines 531-572 for one node
PrintNode(node, rec, out) ==
    LET IBs == IF "IB_speed" \in DOMAIN rec THEN rec.IB_speed ELSE Placeholder
        IBt == IF "IB_temp" \in DOMAIN rec THEN rec.IB_temp ELSE Placeholder
        res == ResourceArgs(rec, IBs, IBt)
    IN  IF IsDown(node, rec)
        THEN [out EXCEPT !.rows =
                 Append(out.rows, Format(DownColumns, <<node, Str("Down")>>).val)]
        ELSE IF Len(rec.Jobs) = 0
        THEN IF res.err # "" THEN [out EXCEPT !.err = res.err]
             ELSE [out EXCEPT !.rows =
                      Append(out.rows,
                             Format(NumColumns,
                                    <<node, Placeholder, Placeholder, Placeholder>>
                                    \o res.val).val)]
        ELSE JobRows(node, rec, res, 1, out)

RECURSIVE PrintNodes(_, _, _)
PrintNodes(data, order, out) ==
    IF order = <<>> \/ out.err # "" THEN out
    ELSE PrintNodes(data, Tail(order),
                    PrintNode(order[1], Get(data, order[1]), out))

print_output(data) ==
    PrintNodes(data, SortedKeys(KeySet(data)),
               [err |-> "", rows |-> <<Format(NumColumns, HeaderRow).val>>])

----------------------------------------------------------------------------
(* The scheduler commands and the texts they print.                        *)

qstat == [path |-> <<"usr", "local", "torque", "bin", "qstat">>, args |-> <<>>]

showq == [path |-> <<"usr", "local", "maui", "bin", "showq">>, args |-> <<>>]

pbsnodes == [path |-> <<"usr", "local", "torque", "bin", "pbsnodes">>, args |-> <<"-a">>]

cmds == <<qstat, pbsnodes, showq>>

\* a faulty variant of Basename: the directory's name
BasenameBug(path) == path[Len(path) - 1]

\* os.path.basename(cmd[0])
Basename(path) == path[Len(path)]

JobSeq == <<"12", "13">>

JobNameOf(j) == IF j = "12" THEN Str("sim") ELSE Str("fit")

JobUserOf(j) == IF j = "12" THEN Str("alice") ELSE Str("bob")

QstatHeader ==
    <<Line(0, <<Str("Job"), Str("id"), Str("Name"), Str("User"), Str("Time"),
                Str("Use"), Str("S"), Str("Queue")>>),
      Line(0, <<Str("----"), Str("----"), Str("----"), Str("----"), Str("-"),
                Str("-----")>>)>>

QstatRecord(j) ==
    Line(0, <<<<j, ".", "eureka00">>, JobNameOf(j), JobUserOf(j),
              Str("01:00:00"), Str("R"), Str("workq")>>)

\* a record cut short, as a format change would leave it
QstatShort(j) ==
    Line(0, <<<<j, ".", "eureka00">>, JobNameOf(j), JobUserOf(j),
              Str("01:00:00"), Str("R")>>)

QstatLines == {QstatRecord(j) : j \in JobIds} \cup {QstatShort("12"), BlankLine}

SeqsUpTo(S, n) == UNION {[1..k -> S] : k \in 0..n}

QstatTexts(n) == {QstatHeader \o body : body \in SeqsUpTo(QstatLines, n)}

ShowqRecord(j) ==
    Line(0, <<Str(j), JobUserOf(j), Str("Running"), Str("16"), Str("23:59:59"),
              Str("Mon")>>)

\* the jobs of js in the order of the listing
Listed(js) == SelectSeq(JobSeq, LAMBDA j : j \in js)

ShowqRecords(js) == [i \in 1..Len(Listed(js)) |-> ShowqRecord(Listed(js)[i])]

QstatRecords(js) == [i \in 1..Len(Listed(js)) |-> QstatRecord(Listed(js)[i])]

\* showq's report: the active jobs, the indented count that ends the section,
\* then the idle jobs
ShowqText(active) ==
    <<BlankLine,
      Line(0, <<Str("ACTIVE"), Str("JOBS")>>),
      Line(0, <<Str("JOBNAME"), Str("USERNAME"), Str("STATE"), Str("PROC"),
                Str("REMAINING"), Str("STARTTIME")>>),
      BlankLine>>
    \o ShowqRecords(active)
    \o <<BlankLine,
         Line(5, <<Str("1"), Str("Active"), Str("Job")>>),
         BlankLine,
         Line(0, <<Str("IDLE"), Str("JOBS")>>)>>
    \o ShowqRecords(JobIds \ active)
    \o <<BlankLine>>

ShowqTexts == {ShowqText(active) : active \in SUBSET JobIds}

\* a slot token of a "jobs =" line: <slot>/<jobID>.<suffix> as Torque prints
\* it, or <jobID>.<suffix>/<slot>
SlotToken(j, slot, slotFirst) ==
    IF slotFirst THEN <<slot, "/", j, ".", "eureka00">>
    ELSE <<j, ".", "eureka00", "/", slot>>

SlotNames == <<"0", "1", "2", "3">>

\* the lines pbsnodes prints for one node; plan = [name, state, jobs]
NodeBlock(plan, slotFirst) ==
    <<Line(0, <<plan.name>>),
      Line(5, <<Str("state"), Str("="), plan.state>>),
      Line(5, <<Str("np"), Str("="), Str("16")>>)>>
    \o (IF plan.jobs = <<>> THEN <<>>
        ELSE <<Line(5, <<Str("jobs"), Str("=")>>
                       \o [i \in 1..Len(plan.jobs) |->
                              SlotToken(plan.jobs[i], SlotNames[i], slotFirst)])>>)
    \o <<BlankLine>>

RECURSIVE PbsText(_, _)
PbsText(plans, slotFirst) ==
    IF plans = <<>> THEN <<>>
    ELSE NodeBlock(plans[1], slotFirst) \o PbsText(Tail(plans), slotFirst)

Plan(i, state, jobs) == [name |-> NodeName(i), state |-> state, jobs |-> jobs]

Failed == [rc |-> 1, out |-> <<>>]

\* what a command may return: its text with status 0, or a non-zero status
CmdResults(texts) == {[rc |-> 0, out |-> t] : t \in texts} \cup {Failed}

----------------------------------------------------------------------------
(* The main thread and the worker threads.                                 *)

\* an uncaught exception or exit(1) in the main thread
Crash(e) == pc' = "exit" /\ exit_code' = 1 /\ crash' = e

Goto(p) == pc' = p /\ UNCHANGED <<exit_code, crash>>

\* get_node_state, lines 134-137: threads start in the order of cmds
StartThread(i) ==
    /\ pc = "spawn"
    /\ thread[i] = "unstarted"
    /\ \A j \in 1..(i - 1) : thread[j] # "unstarted"
    /\ thread' = [thread EXCEPT ![i] = "running"]
    /\ pc' = IF i = Len(cmds) THEN "join" ELSE "spawn"
    /\ UNCHANGED <<exit_code, crash, is_root, inventory, cmd_out, joined, results,
                   parsers_run, job_stats, running_jobs, node_state,
                   alive_nodes, metrics, cmds_run, timeouts, rows>>

\* run_cli in a worker thread: exit(1) raises SystemExit, which ends the
\* thread that raised it and nothing else
RunCli(i) ==
    /\ thread[i] = "running"
    /\ IF cmd_out[i].rc = 0
       THEN /\ results' = Put(results, Basename(cmds[i].path), Strip(cmd_out[i].out))
            /\ thread' = [thread EXCEPT ![i] = "done"]
       ELSE /\ thread' = [thread EXCEPT ![i] = "exited"]
            /\ UNCHANGED results
    /\ UNCHANGED <<pc, exit_code, crash, is_root, inventory, cmd_out, joined,
                   parsers_run, job_stats, running_jobs, node_state,
                   alive_nodes, metrics, cmds_run, timeouts, rows>>

\* get_node_state, lines 139-140
Join(i) ==
    /\ pc = "join"
    /\ joined = i - 1
    /\ thread[i] \in {"done", "exited"}
    /\ joined' = i
    /\ pc' = IF i = Len(cmds) THEN "parse_qstat" ELSE "join"
    /\ UNCHANGED <<exit_code, crash, is_root, inventory, cmd_out, thread, results,
                   parsers_run, job_stats, running_jobs, node_state,
                   alive_nodes, metrics, cmds_run, timeouts, rows>>

\* line 144
ParseQstat ==
    /\ pc = "parse_qstat"
    /\ IF ~Has(results, "qstat")
       THEN Crash("KeyError") /\ UNCHANGED <<parsers_run, job_stats>>
       ELSE LET r == qstat_data_handler(Get(results, "qstat"))
            IN  /\ parsers_run' = parsers_run \cup {"qstat"}
                /\ IF r.err # ""
                   THEN Crash(r.err) /\ UNCHANGED job_stats
                   ELSE Goto("parse_showq") /\ job_stats' = r.val
    /\ UNCHANGED <<is_root, inventory, cmd_out, thread, joined, results,
                   running_jobs, node_state, alive_nodes, metrics, cmds_run,
                   timeouts, rows>>

\* line 145
ParseShowq ==
    /\ pc = "parse_showq"
    /\ IF ~Has(results, "showq")
       THEN Crash("KeyError") /\ UNCHANGED <<parsers_run, running_jobs>>
       ELSE LET r == showq_data_handler(Get(results, "showq"))
            IN  /\ parsers_run' = parsers_run \cup {"showq"}
                /\ IF r.err # ""
                   THEN Crash(r.err) /\ UNCHANGED running_jobs
                   ELSE Goto("parse_pbsnodes") /\ running_jobs' = r.val
    /\ UNCHANGED <<is_root, inventory, cmd_out, thread, joined, results,
                   job_stats, node_state, alive_nodes, metrics, cmds_run,
                   timeouts, rows>>

\* line 148
ParsePbsnodes ==
    /\ pc = "parse_pbsnodes"
    /\ IF ~Has(results, "pbsnodes")
       THEN Crash("KeyError") /\ UNCHANGED <<parsers_run, node_state>>
       ELSE LET r == pbsnodes_data_handler(Get(results, "pbsnodes"))
            IN  /\ parsers_run' = parsers_run \cup {"pbsnodes"}
                /\ IF r.err # ""
                   THEN Crash(r.err) /\ UNCHANGED node_state
                   ELSE Goto("merge") /\ node_state' = r.val
    /\ UNCHANGED <<is_root, inventory, cmd_out, thread, joined, results,
                   job_stats, running_jobs, alive_nodes, metrics, cmds_run,
                   timeouts, rows>>

\* line 152
MergePbsQstat ==
    /\ pc = "merge"
    /\ LET r == merge_pbs_qstat(node_state, job_stats, running_jobs)
       IN  IF r.err # ""
           THEN Crash(r.err) /\ UNCHANGED node_state
           ELSE Goto("alive") /\ node_state' = r.val
    /\ UNCHANGED <<is_root, inventory, cmd_out, thread, joined, results,
                   parsers_run, job_stats, running_jobs, alive_nodes, metrics,
                   cmds_run, timeouts, rows>>

\* line 585
GetAliveNodes ==
    /\ pc = "alive"
    /\ alive_nodes' = get_alive_nodes(node_state)
    /\ Goto("cpu")
    /\ UNCHANGED <<is_root, inventory, cmd_out, thread, joined, results,
                   parsers_run, job_stats, running_jobs, node_state, metrics,
                   cmds_run, timeouts, rows>>

----------------------------------------------------------------------------
(* The metric collectors.  What a broadcast prints is modelled by the hosts *)
(* that answered: a collector's dict has one entry for each of them.        *)

Sample == Str("1.0")

GpuSample == [Usage |-> Str("9.0"), Mem |-> Str("2.0"), Temp |-> Str("40.0")]

EmptyMetrics ==
    [cpu_usage |-> <<>>, cpu_temp |-> <<>>, Mem_usage |-> <<>>, GPU_usage |-> <<>>,
     IB_speed |-> Dict(<<>>), IB_temp |-> Dict(<<>>), disk_usage |-> <<>>]

\* the dict built from the lines of the hosts that answered
RECURSIVE Answer(_, _, _, _)
Answer(hosts, lost, sample, d) ==
    IF hosts = <<>> THEN d
    ELSE Answer(Tail(hosts), lost, sample,
                IF hosts[1] \in lost THEN d ELSE Put(d, hosts[1], sample))

\* ','.join(nodes): the target list run_pdsh_cli hands to pdsh -w
RECURSIVE pdsh_targets(_)
pdsh_targets(nodes) ==
    IF nodes = <<>> THEN <<>>
    ELSE IF Len(nodes) = 1 THEN nodes[1]
    ELSE nodes[1] \o Str(",") \o pdsh_targets(Tail(nodes))

\* run_pdsh_cli (or run_cli) in the main thread, then the collector's scan,
\* which stores the dict under `key`
Probe(cmd, hosts, next, key, sample, privileged) ==
    /\ cmds_run' = cmds_run \cup {cmd}
    /\ \/ \E lost \in SUBSET Range(hosts) :
             /\ timeouts + Cardinality(lost) <= MaxTimeouts
             /\ timeouts' = timeouts + Cardinality(lost)
             /\ metrics' = [metrics EXCEPT
                               ![key] = IF privileged
                                        THEN Dict(Answer(hosts, lost, sample, <<>>))
                                        ELSE Answer(hosts, lost, sample, <<>>)]
             /\ Goto(next)
       \/ /\ Crash("SystemExit")
          /\ UNCHANGED <<metrics, timeouts>>
    /\ UNCHANGED <<is_root, inventory, cmd_out, thread, joined, results,
                   parsers_run, job_stats, running_jobs, node_state,
                   alive_nodes, rows>>

\* lines 422-424 and 444-446
Skip(key, next) ==
    /\ metrics' = [metrics EXCEPT ![key] = Int0]
    /\ Goto(next)
    /\ UNCHANGED <<is_root, inventory, cmd_out, thread, joined, results,
                   parsers_run, job_stats, running_jobs, node_state,
                   alive_nodes, cmds_run, timeouts, rows>>

get_cpu_usage ==
    /\ pc = "cpu"
    /\ Probe("mpstat", alive_nodes, "cpu_temp", "cpu_usage", Sample, FALSE)

get_cpu_temp ==
    /\ pc = "cpu_temp"
    /\ Probe("sensors", alive_nodes, "mem", "cpu_temp", Sample, FALSE)

get_memory_usage ==
    /\ pc = "mem"
    /\ Probe("free", alive_nodes, "gpu", "Mem_usage", Sample, FALSE)

get_gpu_usage ==
    /\ pc = "gpu"
    /\ Probe("nvidia-smi", alive_nodes, "ib_speed", "GPU_usage", GpuSample, FALSE)

\* the hosts iblinkinfo lists: the fabric, whatever the nodes' state
Fabric == SortedKeys(KeySet(node_state) \cup {HeadNode})

get_IB_speed ==
    /\ pc = "ib_speed"
    /\ IF ~is_root THEN Skip("IB_speed", "ib_temp")
       ELSE Probe("iblinkinfo", Fabric, "ib_temp", "IB_speed", Sample, TRUE)

get_IB_adaptor_temp ==
    /\ pc = "ib_temp"
    /\ IF ~is_root THEN Skip("IB_temp", "disk")
       ELSE Probe("mget_temp", alive_nodes, "disk", "IB_temp", Sample, TRUE)

get_disk_usage ==
    /\ pc = "disk"
    /\ Probe("df", alive_nodes, "merge_data", "disk_usage", Sample, FALSE)

\* lines 611-615
MergeData ==
    /\ pc = "merge_data"
    /\ LET r == merge_data(node_state, metrics)
       IN  IF r.err # ""
           THEN Crash(r.err) /\ UNCHANGED node_state
           ELSE Goto("output") /\ node_state' = r.val
    /\ UNCHANGED <<is_root, inventory, cmd_out, thread, joined, results,
                   parsers_run, job_stats, running_jobs, alive_nodes, metrics,
                   cmds_run, timeouts, rows>>

\* line 618, with the default mode 'p'
PrintOutput ==
    /\ pc = "output"
    /\ LET out == print_output(node_state)
       IN  /\ rows' = out.rows
           /\ IF out.err # ""
              THEN Crash(out.err)
              ELSE pc' = "done" /\ exit_code' = 0 /\ UNCHANGED crash
    /\ UNCHANGED <<is_root, inventory, cmd_out, thread, joined, results,
                   parsers_run, job_stats, running_jobs, node_state,
                   alive_nodes, metrics, cmds_run, timeouts>>

----------------------------------------------------------------------------
(* Specifications.                                                         *)

Begin(p, root, inv, co, th, jn, res, js, rj, ns, al, m) ==
    /\ pc = p
    /\ exit_code = -1
    /\ crash = ""
    /\ is_root = root
    /\ inventory = inv
    /\ cmd_out = co
    /\ thread = th
    /\ joined = jn
    /\ results = res
    /\ parsers_run = {}
    /\ job_stats = js
    /\ running_jobs = rj
    /\ node_state = ns
    /\ alive_nodes = al
    /\ metrics = m
    /\ cmds_run = {}
    /\ timeouts = 0
    /\ rows = <<>>

Inventory(plans, slotFirst) == [nodes |-> plans, slotFirst |-> slotFirst]

InventoryText(inv) == PbsText(inv.nodes, inv.slotFirst)

\* the clusters of the whole-program runs
Clusters ==
    {Inventory(<<Plan(0, Str("free"), <<>>),
                 Plan(1, Str("job-exclusive"), <<"12", "12">>)>>, TRUE),
     Inventory(<<Plan(0, <<"down", ",", "offline">>, <<>>),
                 Plan(1, Str("free"), <<"12", "13">>)>>, TRUE),
     Inventory(<<Plan(0, Str("free"), <<"13">>),
                 Plan(1, Str("unknown"), <<>>)>>, TRUE)}

\* the program from its start: every outcome of the three scheduler commands
Init ==
    \E root \in BOOLEAN, inv \in Clusters :
    \E q \in CmdResults(QstatTexts(MaxQstatLines)), p \in CmdResults({InventoryText(inv)}),
       s \in CmdResults(ShowqTexts) :
        /\ Begin("spawn", root, inv, <<q, p, s>>,
                 [i \in 1..Len(cmds) |-> "unstarted"], 0, <<>>,
                 <<>>, <<>>, <<>>, <<>>, EmptyMetrics)

Next ==
    \/ \E i \in 1..Len(cmds) : StartThread(i)
    \/ \E i \in 1..Len(cmds) : RunCli(i)
    \/ \E i \in 1..Len(cmds) : Join(i)
    \/ ParseQstat
    \/ ParseShowq
    \/ ParsePbsnodes
    \/ MergePbsQstat
    \/ GetAliveNodes
    \/ get_cpu_usage
    \/ get_cpu_temp
    \/ get_memory_usage
    \/ get_gpu_usage
    \/ get_IB_speed
    \/ get_IB_adaptor_temp
    \/ get_disk_usage
    \/ MergeData
    \/ PrintOutput

Spec == Init /\ [][Next]_vars

----------------------------------------------------------------------------
(* The program part-way through a run whose scheduler commands succeeded:  *)
(* the state the main thread reaches at position p, computed by the steps  *)
(* before p.  The specifications below start there, over wider inputs than *)
(* the whole-program runs.                                                 *)

Stages ==
    <<"parse_pbsnodes", "merge", "alive", "cpu", "output">>

Before(p, q) ==
    \E i, j \in 1..Len(Stages) : Stages[i] = p /\ Stages[j] = q /\ i < j

\* every host answers every probe
FullMetrics(root, tree, alive) ==
    LET fabric == SortedKeys(KeySet(tree) \cup {HeadNode})
    IN  [cpu_usage  |-> Answer(alive, {}, Sample, <<>>),
         cpu_temp   |-> Answer(alive, {}, Sample, <<>>),
         Mem_usage  |-> Answer(alive, {}, Sample, <<>>),
         GPU_usage  |-> Answer(alive, {}, GpuSample, <<>>),
         IB_speed   |-> IF root THEN Dict(Answer(fabric, {}, Sample, <<>>)) ELSE Int0,
         IB_temp    |-> IF root THEN Dict(Answer(alive, {}, Sample, <<>>)) ELSE Int0,
         disk_usage |-> Answer(alive, {}, Sample, <<>>)]

Reached(p, root, inv, queued, active) ==
    LET qtext  == Strip(QstatHeader \o QstatRecords(queued))
        ptext  == Strip(InventoryText(inv))
        stext  == Strip(ShowqText(active))
        js     == qstat_data_handler(qtext)
        rj     == showq_data_handler(stext)
        tree   == pbsnodes_data_handler(ptext)
        merged == merge_pbs_qstat(tree.val, js.val, rj.val)
        alive  == get_alive_nodes(merged.val)
        full   == FullMetrics(root, merged.val, alive)
        rich   == merge_data(merged.val, full)
    IN  /\ js.err = "" /\ rj.err = ""
        /\ Before("parse_pbsnodes", p) => tree.err = ""
        /\ Before("merge", p) => merged.err = ""
        /\ Before("cpu", p) => rich.err = ""
        /\ pc = p
        /\ exit_code = -1
        /\ crash = ""
        /\ is_root = root
        /\ inventory = inv
        /\ cmd_out = <<[rc |-> 0, out |-> QstatHeader \o QstatRecords(queued)],
                       [rc |-> 0, out |-> InventoryText(inv)],
                       [rc |-> 0, out |-> ShowqText(active)]>>
        /\ thread = [i \in 1..Len(cmds) |-> "done"]
        /\ joined = Len(cmds)
        /\ results = <<[k |-> "qstat", v |-> qtext], [k |-> "pbsnodes", v |-> ptext],
                       [k |-> "showq", v |-> stext]>>
        /\ parsers_run = IF p = "parse_pbsnodes" THEN {"qstat", "showq"}
                         ELSE {"qstat", "showq", "pbsnodes"}
        /\ job_stats = js.val
        /\ running_jobs = rj.val
        /\ node_state = IF p = "parse_pbsnodes" THEN <<>>
                        ELSE IF p = "merge" THEN tree.val
                        ELSE IF p = "output" THEN rich.val
                        ELSE merged.val
        /\ alive_nodes = IF Before("alive", p) THEN alive ELSE <<>>
        /\ metrics = IF p = "output" THEN full ELSE EmptyMetrics
        /\ cmds_run = IF p = "output"
                      THEN {"mpstat", "sensors", "free", "nvidia-smi", "df"}
                           \cup (IF root THEN {"iblinkinfo", "mget_temp"} ELSE {})
                      ELSE {}
        /\ timeouts = 0
        /\ rows = <<>>

PbsStates == {Str("free"), <<"down", ",", "offline">>}

\* node plans for eureka00 .. eureka<n-1> in that order
PlansOf(n, states, jobseqs) ==
    {[i \in 1..n |-> Plan(i - 1, st[i], jb[i])] :
        st \in [1..n -> states], jb \in [1..n -> jobseqs]}

\* inventories of up to MaxNode nodes with up to MaxSlots slot tokens each in
\* Torque's token form, and the one-node inventories in the other form
Inventories(nodes, slots) ==
    {Inventory(plans, TRUE) :
        plans \in UNION {PlansOf(n, PbsStates, SeqsUpTo(JobIds, slots)) :
                            n \in 0..nodes}}
    \cup {Inventory(plans, FALSE) :
             plans \in PlansOf(1, PbsStates, SeqsUpTo(JobIds, slots))}

InitPbs ==
    \E inv \in Inventories(MaxNode, MaxSlots) : Reached("parse_pbsnodes", FALSE, inv, {}, {})

\* pbsnodes_data_handler on generated inventories
SpecPbs == InitPbs /\ [][ParsePbsnodes]_vars

\* inventories whose nodes hold no job, one job, or two jobs
PlacedInventories(nodes) ==
    {Inventory(plans, TRUE) :
        plans \in UNION {PlansOf(n, PbsStates,
                                 SeqsUpTo(JobIds, 1) \cup {<<"12", "13">>}) :
                            n \in 0..nodes}}

InitMerge ==
    \E inv \in PlacedInventories(MaxNode), queued \in SUBSET JobIds, active \in SUBSET JobIds :
        Reached("merge", FALSE, inv, queued, active)

\* merge_pbs_qstat on parsed inventories, job queues and queue summaries
SpecMerge == InitMerge /\ [][MergePbsQstat]_vars

TreeStates ==
    {Str("free"), Str("job-exclusive"), Str("down"), Str("unknown"), Str("offline"),
     <<"down", ",", "job-exclusive">>}

Injective(s) == \A i, j \in 1..Len(s) : s[i] = s[j] => i = j

\* inventories that list any of the nodes in any order, in any state
OrderedInventories(nodes) ==
    UNION {{Inventory([i \in 1..Len(order) |-> Plan(order[i], st[i], <<>>)], TRUE) :
               st \in [1..Len(order) -> TreeStates]} :
              order \in {o \in SeqsUpTo(0..(nodes - 1), nodes) : Injective(o)}}

InitAlive ==
    \E inv \in OrderedInventories(MaxNode) : Reached("alive", FALSE, inv, {}, {})

\* get_alive_nodes on merged trees
SpecAlive == InitAlive /\ [][GetAliveNodes]_vars

ProbedStates == {Str("free"), Str("down"), Str("unknown")}

IdleInventories(nodes) ==
    {Inventory(plans, TRUE) :
        plans \in UNION {PlansOf(n, ProbedStates, {<<>>}) : n \in 0..nodes}}

InitMetric ==
    \E inv \in IdleInventories(MaxNode), root \in BOOLEAN : Reached("cpu", root, inv, {}, {})

NextMetric ==
    \/ get_cpu_usage
    \/ get_cpu_temp
    \/ get_memory_usage
    \/ get_gpu_usage
    \/ get_IB_speed
    \/ get_IB_adaptor_temp
    \/ get_disk_usage
    \/ MergeData

\* the collectors and merge_data on merged trees
SpecMetric == InitMetric /\ [][NextMetric]_vars

InitPrint ==
    \E inv \in PlacedInventories(MaxNode), queued \in SUBSET JobIds, root \in BOOLEAN :
        Reached("output", root, inv, queued, JobIds)

\* print_output on enriched trees
SpecPrint == InitPrint /\ [][PrintOutput]_vars

----------------------------------------------------------------------------
(* Claims.                                                                 *)

AllNodes == {NodeName(i) : i \in 0..(Len(NodeIndex) - 1)}

\* the job placements of the tree: <<position of the node, position of the job>>
Placements(tree) ==
    UNION {{<<i, j>> : j \in 1..Len(tree[i].v.Jobs)} : i \in 1..Len(tree)}

JobAt(tree, pl) == tree[pl[1]].v.Jobs[pl[2]]

\* a job placed on a node of the inventory is absent from the queue summary
MissingSummary ==
    \E pl \in Placements(node_state) :
        ~Has(running_jobs, JobAt(node_state, pl).k)

\* C1: the state merge completes and returns the tree, none of its nodes or
\* placements lost, also when a job placed on a node of the inventory is
\* absent from the queue-summary map; the run is not aborted by it.
C1_MergeToleratesMissingSummary ==
    [][(pc = "merge" /\ MissingSummary) =>
          /\ pc' = "alive"
          /\ exit_code' = -1
          /\ Keys(node_state') = Keys(node_state)]_vars

\* C2: a node name is in get_alive_nodes' result iff it is a node of the tree
\* whose state equals 'free' or 'job-exclusive', or it is the head node
\* eureka00, which is in the result whatever its state and also when the tree
\* has no such node.
C2_AliveIff ==
    pc = "cpu" =>
        /\ Range(alive_nodes) \subseteq AllNodes
        /\ \A n \in AllNodes :
              n \in Range(alive_nodes) <=>
                  \/ n = HeadNode
                  \/ /\ Has(node_state, n)
                     /\ Get(node_state, n).State \in {Str("free"), Str("job-exclusive")}

\* the head node is selected though the tree does not hold it, next to a node
\* that is selected for its state and one that is not
C2_Witness ==
    /\ pc = "cpu"
    /\ ~Has(node_state, HeadNode)
    /\ HeadNode \in Range(alive_nodes)
    /\ \E n \in KeySet(node_state) : n \in Range(alive_nodes)

\* the maps merge_data reads for every node it does not skip
MapsRead ==
    <<metrics.cpu_usage, metrics.cpu_temp, metrics.Mem_usage, metrics.GPU_usage,
      metrics.disk_usage>>
    \o (IF IsZero(metrics.IB_speed) THEN <<>> ELSE <<metrics.IB_speed.dict>>)
    \o (IF IsZero(metrics.IB_temp) THEN <<>> ELSE <<metrics.IB_temp.dict>>)

\* a node the merge does not skip as down has no entry in some metric map
MissingSample ==
    \E i \in 1..Len(node_state) :
        /\ ~IsDown(node_state[i].k, node_state[i].v)
        /\ \E m \in 1..Len(MapsRead) : ~Has(MapsRead[m], node_state[i].k)

\* C3: the metric merge completes for the whole tree and keeps every node,
\* also when a metric map has no entry for a node the merge does not skip as
\* down; the run does not fail.
C3_MergeToleratesMissingSample ==
    [][(pc = "merge_data" /\ MissingSample) =>
          /\ pc' = "output"
          /\ exit_code' = -1
          /\ Keys(node_state') = Keys(node_state)]_vars

\* the main thread is past the join and has gone on with the results
Downstream ==
    pc \in {"parse_showq", "parse_pbsnodes", "merge", "alive", "cpu", "cpu_temp",
            "mem", "gpu", "ib_speed", "ib_temp", "disk", "merge_data", "output",
            "done"}

\* C4: once one of the three scheduler commands has exited with a non-zero
\* status, no parser runs on any result and the main thread goes on to no
\* later step.
C4_FailFast ==
    (\E i \in 1..Len(cmds) : thread[i] = "exited") =>
        parsers_run = {} /\ ~Downstream

\* C5: no parser starts, and the main thread is not past the join, until all
\* three worker threads have finished; when all three commands succeed the
\* results map then holds exactly the keys qstat, pbsnodes and showq, each with
\* its own command's output, whatever the order of completion, and the merged
\* tree is the one computed from those three outputs.
C5_ForkJoin ==
    /\ (parsers_run # {} \/ pc \notin {"spawn", "join"}) =>
           \A i \in 1..Len(cmds) : thread[i] \in {"done", "exited"}
    /\ (pc \notin {"spawn", "join"} /\ \A i \in 1..Len(cmds) : cmd_out[i].rc = 0) =>
           /\ Len(results) = 3
           /\ KeySet(results) = {"qstat", "pbsnodes", "showq"}
           /\ Get(results, "qstat") = Strip(cmd_out[1].out)
           /\ Get(results, "pbsnodes") = Strip(cmd_out[2].out)
           /\ Get(results, "showq") = Strip(cmd_out[3].out)
           /\ pc = "alive" =>
                  node_state =
                      merge_pbs_qstat(
                          pbsnodes_data_handler(Strip(cmd_out[2].out)).val,
                          qstat_data_handler(Strip(cmd_out[1].out)).val,
                          showq_data_handler(Strip(cmd_out[3].out)).val).val

\* the three commands succeeded and finished in the reverse of the order in
\* which they were started, and the tree has been merged
C5_Witness ==
    /\ pc = "alive"
    /\ Keys(results) = <<"showq", "pbsnodes", "qstat">>
    /\ Len(node_state) > 0

\* the job-queue text has a line after the header whose field count is not the
\* record width
BadQstatLine(text) ==
    \E i \in (HeaderLines + 1)..Len(text) : Len(text[i].toks) # 6

\* C6: when the job-queue text handed to qstat_data_handler has, after the
\* two header lines, a line whose field count differs from the record width,
\* the process ends with exit code 1 in that parser: no job map, no node tree
\* and no table row is produced and no later parser runs, also when records
\* precede the offending line.
C6_QstatFatal ==
    (pc \notin {"spawn", "join", "parse_qstat"}
     /\ Has(results, "qstat") /\ BadQstatLine(Get(results, "qstat"))) =>
        /\ pc = "exit"
        /\ exit_code = 1
        /\ crash = "SystemExit"
        /\ parsers_run = {"qstat"}
        /\ job_stats = <<>>
        /\ node_state = <<>>
        /\ rows = <<>>

\* the parser has ended the process on a text whose first line after the
\* header is a record and whose second is not
C6_Witness ==
    /\ pc = "exit"
    /\ crash = "SystemExit"
    /\ Has(results, "qstat")
    /\ LET text == Get(results, "qstat")
       IN  /\ Len(text) = HeaderLines + 2
           /\ Len(text[HeaderLines + 1].toks) = 6
           /\ Len(text[HeaderLines + 2].toks) # 6

Count(jobs, j) == Cardinality({i \in 1..Len(jobs) : jobs[i] = j})

\* the tree has exactly the inventory's nodes, each with its state and, for
\* every job, as many processes as the node has slot tokens of that job
TreeMatchesInventory ==
    /\ Len(node_state) = Len(inventory.nodes)
    /\ \A i \in 1..Len(inventory.nodes) :
          LET plan == inventory.nodes[i]
              node == node_state[i]
          IN  /\ node.k = plan.name
              /\ node.v.State = plan.state
              /\ \A j \in JobIds :
                    IF Count(plan.jobs, j) = 0 THEN ~Has(node.v.Jobs, Str(j))
                    ELSE /\ Has(node.v.Jobs, Str(j))
                         /\ Get(node.v.Jobs, Str(j)).np = Count(plan.jobs, j)

\* C7 as stated: for an inventory whose slot tokens have the form
\* <jobID>.<suffix>/<slot>, the parser returns the tree of exactly N nodes with
\* the given states and per-job process counts.
C7_IdFirstTokens ==
    (pc # "parse_pbsnodes" /\ ~inventory.slotFirst) =>
        pc = "merge" /\ TreeMatchesInventory

\* C7, amended: for an inventory of N distinct nodes whose slot tokens have
\* the form <slot>/<jobID>.<suffix>, the parser returns a tree of exactly N
\* nodes in which each node has the given state and, for every job ID on that
\* node, np equals the number of slot tokens naming that job ID on that node.
C7_SlotFirstTokens ==
    (pc # "parse_pbsnodes" /\ inventory.slotFirst) =>
        pc = "merge" /\ TreeMatchesInventory

\* two nodes have been parsed, one of them with two slots of one job
C7_Witness ==
    /\ pc = "merge"
    /\ inventory.slotFirst
    /\ Len(node_state) = 2
    /\ \E i \in 1..Len(node_state) :
          \E j \in 1..Len(node_state[i].v.Jobs) : node_state[i].v.Jobs[j].v.np = 2

\* C8: for an invoking identity other than root, get_IB_speed and
\* get_IB_adaptor_temp run no command, and the merge_data call that follows
\* completes and leaves IB_speed and IB_temp absent on every node.
C8_PrivilegedSoftSkip ==
    [][(pc = "merge_data" /\ ~is_root) =>
          /\ cmds_run \cap {"iblinkinfo", "mget_temp"} = {}
          /\ IsZero(metrics.IB_speed) /\ IsZero(metrics.IB_temp)
          /\ pc' = "output"
          /\ \A i \in 1..Len(node_state') :
                {"IB_speed", "IB_temp"} \cap DOMAIN node_state'[i].v = {}]_vars

\* C9: a merge that completes gives every placement the job-queue record's
\* name when its job ID is a key of the job-queue map and '--' otherwise, and
\* adds no node, removes no node or placement, and changes no node's state and
\* no placement's np.
C9_MergeNameRule ==
    [][(pc = "merge" /\ pc' = "alive") =>
          /\ Keys(node_state') = Keys(node_state)
          /\ \A i \in 1..Len(node_state) :
                /\ node_state'[i].v.State = node_state[i].v.State
                /\ Keys(node_state'[i].v.Jobs) = Keys(node_state[i].v.Jobs)
          /\ \A pl \in Placements(node_state) :
                LET job == JobAt(node_state, pl).k
                IN  /\ JobAt(node_state', pl).v.np = JobAt(node_state, pl).v.np
                    /\ JobAt(node_state', pl).v.Name =
                           IF Has(job_stats, job) THEN Get(job_stats, job).Name
                           ELSE Str("--")]_vars

\* a merge has completed on a node with one job the job queue lists and one
\* it does not
C9_Witness ==
    /\ pc = "alive"
    /\ \E pl \in Placements(node_state) : JobAt(node_state, pl).v.Name = Str("--")
    /\ \E pl \in Placements(node_state) : JobAt(node_state, pl).v.Name = Str("sim")

\* the rows of one node: one for a down node other than the head node, one
\* for a node without jobs, else one per job
RowsOf(node, rec) ==
    IF Contains(rec.State, "down") /\ node # HeadNode THEN 1
    ELSE IF Len(rec.Jobs) = 0 THEN 1
    ELSE Len(rec.Jobs)

RECURSIVE RowsOfTree(_, _)
RowsOfTree(tree, i) ==
    IF i > Len(tree) THEN 0
    ELSE RowsOf(tree[i].k, tree[i].v) + RowsOfTree(tree, i + 1)

\* C10: print_output runs to completion for every enriched tree and prints,
\* after the header, one row for each down node other than the head node, one
\* row for each other node without jobs and k rows for each other node with
\* k >= 1 jobs.
C10_RenderAllRows ==
    pc \in {"done", "exit"} =>
        /\ pc = "done"
        /\ exit_code = 0
        /\ Len(rows) = 1 + RowsOfTree(node_state, 1)

\* C11: the sequence get_alive_nodes returns holds no node name more than
\* once, the head node eureka00 included when the tree reports it as 'free'
\* or 'job-exclusive', so the target list run_pdsh_cli builds from it names
\* each host once.
C11_AliveNamesOnce ==
    pc = "cpu" =>
        /\ Injective(alive_nodes)
        /\ Injective(Split(pdsh_targets(alive_nodes), ","))

====
